---- MODULE Spec2Model ----
(***************************************************************************)
(* A model of scripts/process_status: the PR readiness classifier          *)
(* (github_utils.py) and the fallback heuristics (analysis.py).            *)
(*                                                                         *)
(* Python values are modelled as follows.  A str is a TLA+ string, a list  *)
(* is a sequence, a dict is a function from its keys (a record; the empty  *)
(* dict is the empty function <<>>), and None is the record None below.    *)
(* What git_utils.run returns (the stripped stdout, or None) is the record *)
(* [stdout |-> s] or None.                                                 *)
(***************************************************************************)
EXTENDS Integers, Sequences, FiniteSets, TLC

VARIABLES
    gh_pr_data,       \* what get_pr_data(pr_num) returns: a dict, or None
    gh_commits,       \* the parsed output of `gh pr view --json commits`, or None
    gh_diff_names,    \* what run("gh pr diff --name-only") returns
    now,              \* the wall clock (UTC), in seconds since the month began
    readiness_check,  \* the last result of check_pr_readiness, or None
    analyses,         \* the runs of get_pr_review_readiness_analysis so far: when
                      \* each ran and what it returned
    fb_in,            \* the arguments of the fallback helpers of analysis.py
    fb_out,           \* their results, or None
    el_in,            \* the argument of get_elapsed_minutes
    el_out,           \* its result: <<>> before the call, <<minutes>> after it
    pc,               \* where collect_all_data stands
    remote,           \* the open PRs of the repository, by number
    pr_numbers,       \* collect_pr_data: the list get_open_prs returned
    pr_data_results,  \* collect_pr_data: the dict of the PR data, as the
                      \* sequence of its (number, data) pairs in insertion
                      \* order, the order in which the tasks completed
    readiness_results, \* collect_pr_data: the dict of the analyses, by number
    git_status,       \* collect_all_data: what collect_git_status returned
    prs,              \* the entries of the PRs
    issues,           \* collect_all_data: what collect_copilot_issues returned
    summary,          \* collect_all_data: what generate_summary returned
    recommendations,  \* collect_all_data: what generate_recommendations returned
    report,           \* what collect_all_data returned, or None
    summaries         \* the calls of generate_summary on prs and issues: the
                      \* lists as each call left them, and what it returned

\* the variables of get_elapsed_minutes
elapsedVars == <<el_in, el_out>>

\* the variables of collect_all_data
collectVars == <<pc, remote, pr_numbers, pr_data_results, readiness_results,
                 git_status, prs, issues, summary, recommendations, report>>

\* the variables the classifier and the fallback helpers leave alone
restVars == <<elapsedVars, collectVars, summaries>>

vars == <<gh_pr_data, gh_commits, gh_diff_names, now, readiness_check, analyses,
          fb_in, fb_out, restVars>>

-----------------------------------------------------------------------------
(* Python values *)

None == [py_none |-> TRUE]

\* A value that is a str or None (dict.get(key) of a string field) is a
\* sequence: <<>> for None, <<s>> for the string s.
NoStr == <<>>

Str(s) == <<s>>

\* dict.get(key) of a string field
GetStr(d, key) == IF key \in DOMAIN d THEN Str(d[key]) ELSE NoStr

\* dict.get(key, default)
Get(d, key, default) == IF key \in DOMAIN d THEN d[key] ELSE default

\* Truthy as `pr_data is not None`: an empty dict counts as data
TruthyNotNone(d) == d # None

\* truth value of a dict-or-None (`if not pr_data`)
Truthy(d) == d # None /\ DOMAIN d # {}

UPPERCASE == "ABCDEFGHIJKLMNOPQRSTUVWXYZ"

LOWERCASE == "abcdefghijklmnopqrstuvwxyz"

\* str.lower() of a one-character string
LowerChar(c) ==
    IF \E i \in 1..Len(UPPERCASE) : SubSeq(UPPERCASE, i, i) = c
    THEN LET i == CHOOSE j \in 1..Len(UPPERCASE) : SubSeq(UPPERCASE, j, j) = c
         IN  SubSeq(LOWERCASE, i, i)
    ELSE c

RECURSIVE Lower(_)
\* str.lower()
Lower(s) ==
    IF Len(s) = 0 THEN ""
    ELSE LowerChar(SubSeq(s, 1, 1)) \o Lower(SubSeq(s, 2, Len(s)))

\* `sub in s` for two strings
Contains(s, sub) ==
    \E i \in 1..(Len(s) - Len(sub) + 1) : SubSeq(s, i, i + Len(sub) - 1) = sub

RECURSIVE SplitFrom(_, _, _)
\* the pieces of s from position `from` on, cut at every occurrence of the
\* one-character separator sep
SplitFrom(s, sep, from) ==
    IF \E i \in from..Len(s) : SubSeq(s, i, i) = sep
    THEN LET i == CHOOSE j \in from..Len(s) :
                      /\ SubSeq(s, j, j) = sep
                      /\ \A k \in from..(j - 1) : SubSeq(s, k, k) # sep
         IN  <<SubSeq(s, from, i - 1)>> \o SplitFrom(s, sep, i + 1)
    ELSE <<SubSeq(s, from, Len(s))>>

\* str.split(sep)
Split(s, sep) == SplitFrom(s, sep, 1)

\* seq[-n:] if len(seq) >= n else seq
LastN(seq, n) ==
    IF Len(seq) >= n THEN SubSeq(seq, Len(seq) - n + 1, Len(seq)) ELSE seq

-----------------------------------------------------------------------------
(* github_utils.py *)

\* get_pr_commits, given the parsed output of `gh pr view --json commits`
\* (None when run gave nothing or the output was not JSON)
GetPrCommits(commits_data) ==
    IF commits_data = None THEN <<>> ELSE Get(commits_data, "commits", <<>>)

\* get_pr_changes, given what run("gh pr diff --name-only") returned
GetPrChanges(changes_json) ==
    IF changes_json = None \/ changes_json.stdout = "" THEN <<>>
    ELSE Split(changes_json.stdout, "\n")

completion_indicators ==
    <<"Complete", "Ready for review", "Implementation complete",
      "Final", "Done", "Finished", "All requirements met",
      "Feature complete", "Implementation done">>

planning_indicators ==
    <<"Initial plan", "WIP", "Work in progress", "Planning",
      "Analysis", "Setup", "Preparation", "Initial">>

\* LatestCommits taking the first three commits (commits[:3]), not the last
FirstThreeCommits(commits) ==
    IF Len(commits) >= 3 THEN SubSeq(commits, 1, 3) ELSE commits

\* latest_commits = commits[-3:] if len(commits) >= 3 else commits
LatestCommits(commits) == LastN(commits, 3)

\* msg = commit.get('messageHeadline', '').lower()
HeadlineLower(commit) == Lower(Get(commit, "messageHeadline", ""))

\* indicator.lower() for every indicator of a list
LowerAll(indicators) == [i \in 1..Len(indicators) |-> Lower(indicators[i])]

completion_lower == LowerAll(completion_indicators)

planning_lower == LowerAll(planning_indicators)

\* any(indicator.lower() in msg for indicator in indicators), given the
\* lowered indicators
HasIndicator(msg, lowered) == \E i \in 1..Len(lowered) : Contains(msg, lowered[i])

\* the loop over latest_commits: has_completion
HasCompletion(latest_commits) ==
    \E i \in 1..Len(latest_commits) :
        HasIndicator(HeadlineLower(latest_commits[i]), completion_lower)

\* the loop over latest_commits: has_planning
HasPlanning(latest_commits) ==
    \E i \in 1..Len(latest_commits) :
        HasIndicator(HeadlineLower(latest_commits[i]), planning_lower)

\* YarnLockOnly without the length test: the first file is a yarn.lock
YarnLockOnlyFirstFile(changes) ==
    Len(changes) >= 1 /\ Contains(changes[1], "yarn.lock")

\* len(changes) == 1 and 'yarn.lock' in changes[0]
YarnLockOnly(changes) == Len(changes) = 1 /\ Contains(changes[1], "yarn.lock")

\* the elif branch: len(changes) > 1 and non_lock_files is not empty
HasRealImplementation(changes) ==
    /\ ~YarnLockOnly(changes)
    /\ Len(changes) > 1
    /\ \E i \in 1..Len(changes) :
           /\ ~Contains(changes[i], "yarn.lock")
           /\ ~Contains(changes[i], "package-lock.json")

\* check_pr_readiness; detailed_changes (a third query, `gh pr diff --stat`,
\* whose result is only passed through) is left out of the record
CheckPrReadiness(commits_data, changes_json) ==
    LET commits == GetPrCommits(commits_data)
        latest_commits == LatestCommits(commits)
        changes == GetPrChanges(changes_json)
    IN  [has_completion_indicators |-> HasCompletion(latest_commits),
         has_planning_indicators   |-> HasPlanning(latest_commits),
         yarn_lock_only            |-> YarnLockOnly(changes),
         has_real_implementation   |-> HasRealImplementation(changes),
         file_count                |-> Len(changes),
         latest_commit_messages    |->
             [i \in 1..Len(latest_commits) |->
                 Get(latest_commits[i], "messageHeadline", "")],
         changed_files             |-> changes]

\* The outcome of each branch of the chain: ready_for_review, recommendation,
\* confidence and reasons as the branch leaves them (a branch that does not
\* assign one leaves the default: False, "wait", "low", and reasons gets the
\* one string the branch appends to the empty list).
ResolveConflicts ==
    [ready_for_review |-> FALSE, recommendation |-> "resolve_conflicts",
     confidence |-> "low", reasons |-> <<"Has merge conflicts">>]

WaitYarnLock ==
    [ready_for_review |-> FALSE, recommendation |-> "wait", confidence |-> "low",
     reasons |-> <<"Only yarn.lock changes - likely setup phase">>]

ReviewReadyCompletion ==
    [ready_for_review |-> TRUE, recommendation |-> "review_ready",
     confidence |-> "high", reasons |-> <<"Has completion indicators in commits">>]

ReviewReadyImplementation ==
    [ready_for_review |-> TRUE, recommendation |-> "review_ready",
     confidence |-> "medium", reasons |-> <<"Has substantial implementation">>]

ConvertToReady ==
    [ready_for_review |-> FALSE, recommendation |-> "convert_to_ready",
     confidence |-> "high",
     reasons |-> <<"Claims completion but still marked as draft">>]

WaitPlanning ==
    [ready_for_review |-> FALSE, recommendation |-> "wait", confidence |-> "low",
     reasons |-> <<"Still in planning/setup phase">>]

Investigate ==
    [ready_for_review |-> FALSE, recommendation |-> "investigate",
     confidence |-> "low", reasons |-> <<"Unclear status - needs manual review">>]

\* Decision with the yarn.lock branch tested before the conflict branch
DecisionYarnFirst(mergeable, is_draft, rc) ==
    IF rc.yarn_lock_only THEN WaitYarnLock
    ELSE IF mergeable = "CONFLICTING" THEN ResolveConflicts
    ELSE IF rc.has_completion_indicators /\ ~is_draft THEN ReviewReadyCompletion
    ELSE IF rc.has_real_implementation /\ ~is_draft THEN ReviewReadyImplementation
    ELSE IF is_draft /\ rc.has_completion_indicators THEN ConvertToReady
    ELSE IF rc.has_planning_indicators THEN WaitPlanning
    ELSE Investigate

\* Decision with the planning branch tested before the implementation branch
DecisionPlanningEarly(mergeable, is_draft, rc) ==
    IF mergeable = "CONFLICTING" THEN ResolveConflicts
    ELSE IF rc.yarn_lock_only THEN WaitYarnLock
    ELSE IF rc.has_completion_indicators /\ ~is_draft THEN ReviewReadyCompletion
    ELSE IF rc.has_planning_indicators THEN WaitPlanning
    ELSE IF rc.has_real_implementation /\ ~is_draft THEN ReviewReadyImplementation
    ELSE IF is_draft /\ rc.has_completion_indicators THEN ConvertToReady
    ELSE Investigate

\* Decision whose draft-with-completion branch does not set the confidence
DecisionConvertLow(mergeable, is_draft, rc) ==
    IF mergeable = "CONFLICTING" THEN ResolveConflicts
    ELSE IF rc.yarn_lock_only THEN WaitYarnLock
    ELSE IF rc.has_completion_indicators /\ ~is_draft THEN ReviewReadyCompletion
    ELSE IF rc.has_real_implementation /\ ~is_draft THEN ReviewReadyImplementation
    ELSE IF is_draft /\ rc.has_completion_indicators
         THEN [ConvertToReady EXCEPT !.confidence = "low"]
    ELSE IF rc.has_planning_indicators THEN WaitPlanning
    ELSE Investigate

\* Decision whose conflict branch does not end the chain for the reasons: the
\* yarn.lock reason is appended as well
DecisionAccumulate(mergeable, is_draft, rc) ==
    IF mergeable = "CONFLICTING"
    THEN IF rc.yarn_lock_only
         THEN [ResolveConflicts EXCEPT !.reasons = @ \o WaitYarnLock.reasons]
         ELSE ResolveConflicts
    ELSE IF rc.yarn_lock_only THEN WaitYarnLock
    ELSE IF rc.has_completion_indicators /\ ~is_draft THEN ReviewReadyCompletion
    ELSE IF rc.has_real_implementation /\ ~is_draft THEN ReviewReadyImplementation
    ELSE IF is_draft /\ rc.has_completion_indicators THEN ConvertToReady
    ELSE IF rc.has_planning_indicators THEN WaitPlanning
    ELSE Investigate

\* Decision that, like the fallback, asks for an investigation once time has
\* passed
DecisionTimed(mergeable, is_draft, rc) ==
    IF mergeable = "CONFLICTING" THEN ResolveConflicts
    ELSE IF rc.yarn_lock_only THEN WaitYarnLock
    ELSE IF rc.has_completion_indicators /\ ~is_draft THEN ReviewReadyCompletion
    ELSE IF rc.has_real_implementation /\ ~is_draft THEN ReviewReadyImplementation
    ELSE IF is_draft /\ rc.has_completion_indicators THEN ConvertToReady
    ELSE IF rc.has_planning_indicators /\ now = 0 THEN WaitPlanning
    ELSE Investigate

\* Decision whose draft-with-completion branch sets ready_for_review as well
DecisionConvertReady(mergeable, is_draft, rc) ==
    IF mergeable = "CONFLICTING" THEN ResolveConflicts
    ELSE IF rc.yarn_lock_only THEN WaitYarnLock
    ELSE IF rc.has_completion_indicators /\ ~is_draft THEN ReviewReadyCompletion
    ELSE IF rc.has_real_implementation /\ ~is_draft THEN ReviewReadyImplementation
    ELSE IF is_draft /\ rc.has_completion_indicators
         THEN [ConvertToReady EXCEPT !.ready_for_review = TRUE]
    ELSE IF rc.has_planning_indicators THEN WaitPlanning
    ELSE Investigate

\* the if/elif chain of get_pr_review_readiness_analysis
Decision(mergeable, is_draft, rc) ==
    IF mergeable = "CONFLICTING" THEN ResolveConflicts
    ELSE IF rc.yarn_lock_only THEN WaitYarnLock
    ELSE IF rc.has_completion_indicators /\ ~is_draft THEN ReviewReadyCompletion
    ELSE IF rc.has_real_implementation /\ ~is_draft THEN ReviewReadyImplementation
    ELSE IF is_draft /\ rc.has_completion_indicators THEN ConvertToReady
    ELSE IF rc.has_planning_indicators THEN WaitPlanning
    ELSE Investigate

\* get_pr_review_readiness_analysis
GetPrReviewReadinessAnalysis(pr_num, pr_data, commits_data, changes_json) ==
    IF ~Truthy(pr_data) THEN [error |-> "PR not found", ready |-> FALSE]
    ELSE
        LET rc == CheckPrReadiness(commits_data, changes_json)
            is_draft == Get(pr_data, "isDraft", FALSE)
            mergeable == Get(pr_data, "mergeable", "UNKNOWN")
            d == Decision(mergeable, is_draft, rc)
        IN  [pr_number        |-> pr_num,
             ready_for_review |-> d.ready_for_review,
             recommendation   |-> d.recommendation,
             confidence       |-> d.confidence,
             reasons          |-> d.reasons,
             is_draft         |-> is_draft,
             mergeable        |-> mergeable,
             stats            |-> [additions |-> Get(pr_data, "additions", 0),
                                   deletions |-> Get(pr_data, "deletions", 0),
                                   files_changed |-> rc.file_count],
             analysis         |-> rc]

-----------------------------------------------------------------------------
(* analysis.py *)

\* PrStatus with the size threshold at >= 1000
PrStatusInclusive(commit_msg, is_draft, additions, deletions) ==
    LET has_implementation ==
            /\ (additions + deletions) >= 1000
            /\ ~(additions = 3510 /\ deletions = 5146)
    IN  IF (\E x \in {"Complete", "Ready for review", "Implementation complete"} :
                Contains(commit_msg, x))
           /\ ~is_draft
        THEN "ready_for_review"
        ELSE IF is_draft /\ ~has_implementation THEN "planning"
        ELSE IF is_draft /\ has_implementation THEN "draft"
        ELSE IF \E x \in {"Initial plan", "WIP"} : Contains(commit_msg, x)
             THEN "planning"
        ELSE IF has_implementation THEN "in_progress"
        ELSE "planning"

\* pr_status
PrStatus(commit_msg, is_draft, additions, deletions) ==
    LET has_implementation ==
            /\ (additions + deletions) > 1000
            /\ ~(additions = 3510 /\ deletions = 5146)
    IN  IF (\E x \in {"Complete", "Ready for review", "Implementation complete"} :
                Contains(commit_msg, x))
           /\ ~is_draft
        THEN "ready_for_review"
        ELSE IF is_draft /\ ~has_implementation THEN "planning"
        ELSE IF is_draft /\ has_implementation THEN "draft"
        ELSE IF \E x \in {"Initial plan", "WIP"} : Contains(commit_msg, x)
             THEN "planning"
        ELSE IF has_implementation THEN "in_progress"
        ELSE "planning"

\* ActionNeeded with the planning threshold at >= 30
ActionNeededInclusive(mergeable, status, elapsed) ==
    IF mergeable = "CONFLICTING" THEN "resolve_conflicts"
    ELSE IF status = "ready_for_review" /\ mergeable = "MERGEABLE" THEN "review_ready"
    ELSE IF status = "planning" /\ elapsed >= 30 THEN "investigate"
    ELSE IF elapsed > 60 THEN "investigate"
    ELSE "wait"

\* ActionNeeded without the conflict branch
ActionNeededNoConflict(mergeable, status, elapsed) ==
    IF status = "ready_for_review" /\ mergeable = "MERGEABLE" THEN "review_ready"
    ELSE IF status = "planning" /\ elapsed > 30 THEN "investigate"
    ELSE IF elapsed > 60 THEN "investigate"
    ELSE "wait"

\* action_needed
ActionNeeded(mergeable, status, elapsed) ==
    IF mergeable = "CONFLICTING" THEN "resolve_conflicts"
    ELSE IF status = "ready_for_review" /\ mergeable = "MERGEABLE" THEN "review_ready"
    ELSE IF status = "planning" /\ elapsed > 30 THEN "investigate"
    ELSE IF elapsed > 60 THEN "investigate"
    ELSE "wait"

\* PriorityForAction ranking only resolve_conflicts and review_ready
PriorityForActionNoInvestigate(action) ==
    IF action = "resolve_conflicts" THEN "high"
    ELSE IF action = "review_ready" THEN "medium"
    ELSE "normal"

\* priority_for_action
PriorityForAction(action) ==
    IF action = "resolve_conflicts" THEN "high"
    ELSE IF action = "review_ready" THEN "medium"
    ELSE IF action = "investigate" THEN "medium"
    ELSE "normal"

\* str.replace(old, new) for a one-character old
RECURSIVE Replace(_, _, _)
Replace(s, old, new) ==
    IF Len(s) = 0 THEN ""
    ELSE (IF SubSeq(s, 1, 1) = old THEN new ELSE SubSeq(s, 1, 1))
             \o Replace(SubSeq(s, 2, Len(s)), old, new)

DIGITS == "0123456789"

IsDigit(c) == \E i \in 1..Len(DIGITS) : SubSeq(DIGITS, i, i) = c

DigitValue(c) == (CHOOSE i \in 1..Len(DIGITS) : SubSeq(DIGITS, i, i) = c) - 1

\* every character of s from position a to position b is a digit
AllDigits(s, a, b) == \A i \in a..b : IsDigit(SubSeq(s, i, i))

RECURSIVE Number(_, _, _)
\* the number the digits of s from position a to position b spell
Number(s, a, b) ==
    IF b < a THEN 0
    ELSE Number(s, a, b - 1) * 10 + DigitValue(SubSeq(s, b, b))

\* datetime.fromisoformat for strings of the form YYYY-MM-DDTHH:MM:SS, with
\* or without an offset +HH:MM or -HH:MM: whether the string is accepted,
\* whether the result is timezone-aware, and its UTC instant in seconds since
\* the month of the timestamp began (the clock and the timestamps of the
\* model lie within one month).  Any other string is a ValueError.
FromIsoFormat(s) ==
    LET wellFormed ==
            /\ Len(s) \in {19, 25}
            /\ AllDigits(s, 1, 4) /\ SubSeq(s, 5, 5) = "-"
            /\ AllDigits(s, 6, 7) /\ SubSeq(s, 8, 8) = "-"
            /\ AllDigits(s, 9, 10) /\ SubSeq(s, 11, 11) = "T"
            /\ AllDigits(s, 12, 13) /\ SubSeq(s, 14, 14) = ":"
            /\ AllDigits(s, 15, 16) /\ SubSeq(s, 17, 17) = ":"
            /\ AllDigits(s, 18, 19)
            /\ Number(s, 1, 4) \in 1..9999
            /\ Number(s, 6, 7) \in 1..12
            /\ Number(s, 9, 10) \in 1..31
            /\ Number(s, 12, 13) \in 0..23
            /\ Number(s, 15, 16) \in 0..59
            /\ Number(s, 18, 19) \in 0..59
            /\ Len(s) = 25 =>
                   /\ SubSeq(s, 20, 20) \in {"+", "-"}
                   /\ AllDigits(s, 21, 22) /\ SubSeq(s, 23, 23) = ":"
                   /\ AllDigits(s, 24, 25)
                   /\ Number(s, 21, 22) \in 0..23
                   /\ Number(s, 24, 25) \in 0..59
        local ==
            ((Number(s, 9, 10) - 1) * 24 + Number(s, 12, 13)) * 3600
                + Number(s, 15, 16) * 60 + Number(s, 18, 19)
        offset ==
            IF Len(s) = 25
            THEN (IF SubSeq(s, 20, 20) = "-" THEN -1 ELSE 1)
                     * (Number(s, 21, 22) * 3600 + Number(s, 24, 25) * 60)
            ELSE 0
    IN  IF wellFormed
        THEN [ok |-> TRUE, aware |-> Len(s) = 25, seconds |-> local - offset]
        ELSE [ok |-> FALSE, aware |-> FALSE, seconds |-> 0]

\* int(x / d): the quotient truncated towards zero
TruncDiv(x, d) == IF x >= 0 THEN x \div d ELSE -((-x) \div d)

\* GetElapsedMinutes rounding down (elapsed // 60) instead of truncating
GetElapsedMinutesFloor(created_at) ==
    IF created_at = NoStr THEN 0
    ELSE LET created_dt == FromIsoFormat(Replace(created_at[1], "Z", "+00:00"))
         IN  IF ~created_dt.ok \/ ~created_dt.aware THEN 0
             ELSE (now - created_dt.seconds) \div 60

\* get_elapsed_minutes: None has no replace (AttributeError), a string that is
\* no timestamp is a ValueError, and an aware now minus a naive timestamp is a
\* TypeError; each is caught and gives 0
GetElapsedMinutes(created_at) ==
    IF created_at = NoStr THEN 0
    ELSE LET created_dt == FromIsoFormat(Replace(created_at[1], "Z", "+00:00"))
         IN  IF ~created_dt.ok \/ ~created_dt.aware THEN 0
             ELSE TruncDiv(now - created_dt.seconds, 60)

-----------------------------------------------------------------------------
(* git_utils.py: get_branch_progress *)

\* what the three git queries about a branch return when git cannot answer:
\* run with check=False returns the (empty) output
GitDown == [count |-> "", oneline |-> "", activity |-> ""]

RECURSIVE IndexOf(_, _, _)
\* the first position at or after from where the character c stands in s,
\* or 0 when there is none
IndexOf(s, c, from) ==
    IF from > Len(s) THEN 0
    ELSE IF SubSeq(s, from, from) = c THEN from
    ELSE IndexOf(s, c, from + 1)

\* parts = latest_commit.split(' ', 1); parts[1] if len(parts) > 1 else
\* latest_commit
AfterHash(latest_commit) ==
    LET i == IndexOf(latest_commit, " ", 1)
    IN  IF i = 0 THEN latest_commit
        ELSE SubSeq(latest_commit, i + 1, Len(latest_commit))

\* int(commit_count), 0 on ValueError
IntOrZero(commit_count) ==
    IF AllDigits(commit_count, 1, Len(commit_count))
    THEN Number(commit_count, 1, Len(commit_count))
    ELSE 0

\* get_branch_progress, given what the git queries about the branch return
GetBranchProgress(branch_name, git) ==
    IF branch_name = ""
    THEN [commits |-> 0, latest_commit |-> "", last_activity |-> ""]
    ELSE [commits       |-> IF git.count # "" THEN IntOrZero(git.count) ELSE 0,
          latest_commit |-> IF git.oneline # "" THEN AfterHash(git.oneline) ELSE "",
          last_activity |-> git.activity]

-----------------------------------------------------------------------------
(* core.py *)

\* the two digits of a number below 100
TwoDigits(n) ==
    SubSeq(DIGITS, (n \div 10) + 1, (n \div 10) + 1)
        \o SubSeq(DIGITS, (n % 10) + 1, (n % 10) + 1)

\* datetime.now(timezone.utc).isoformat() at a whole second; the clock counts
\* from the beginning of January 2024
IsoFormat(t) ==
    "2024-01-" \o TwoDigits((t \div 86400) + 1) \o "T"
        \o TwoDigits((t \div 3600) % 24) \o ":" \o TwoDigits((t \div 60) % 60)
        \o ":" \o TwoDigits(t % 60) \o "+00:00"

\* collect_git_status, given what the two git queries return
CollectGitStatus(head) ==
    [current_branch |-> IF head.branch # "" THEN head.branch ELSE "unknown",
     last_commit    |-> IF head.commit # "" THEN head.commit ELSE "unknown",
     last_updated   |-> IsoFormat(now)]

\* what a subscript of a missing key raises
KeyError == [raised |-> "KeyError"]

\* dict.get(key) of a dict kept as the sequence of its (key, value) pairs in
\* insertion order
DictGet(pairs, key) ==
    IF \E i \in 1..Len(pairs) : pairs[i][1] = key
    THEN pairs[CHOOSE i \in 1..Len(pairs) : pairs[i][1] = key][2]
    ELSE None

\* UseReadiness without the test of the error field
UseReadinessAny(readiness_analysis) == Truthy(readiness_analysis)

\* readiness_analysis and not readiness_analysis.get("error")
UseReadiness(readiness_analysis) ==
    /\ Truthy(readiness_analysis)
    /\ GetStr(readiness_analysis, "error") \in {NoStr, Str("")}

\* the keys of the analysis that the readiness path subscripts
ReadinessKeys ==
    {"ready_for_review", "recommendation", "confidence", "reasons", "stats",
     "analysis"}

\* status, action and priority on the readiness path
ReadinessPath(readiness_analysis, is_draft) ==
    LET action == readiness_analysis.recommendation
    IN  [pr_status     |-> IF readiness_analysis.ready_for_review
                           THEN "ready_for_review"
                           ELSE IF is_draft THEN "draft" ELSE "in_progress",
         action_needed |-> action,
         priority      |-> IF action \in {"resolve_conflicts", "convert_to_ready"}
                           THEN "high"
                           ELSE IF action = "review_ready" THEN "medium"
                           ELSE "normal"]

\* FallbackPath deriving the action without the elapsed time
FallbackPathNoElapsed(commit_msg, is_draft, additions, deletions, mergeable, elapsed) ==
    LET status == PrStatus(commit_msg, is_draft, additions, deletions)
        action == ActionNeeded(mergeable, status, 0)
    IN  [pr_status |-> status, action_needed |-> action,
         priority |-> PriorityForAction(action)]

\* status, action and priority on the fallback path
FallbackPath(commit_msg, is_draft, additions, deletions, mergeable, elapsed) ==
    LET status == PrStatus(commit_msg, is_draft, additions, deletions)
        action == ActionNeeded(mergeable, status, elapsed)
    IN  [pr_status |-> status, action_needed |-> action,
         priority |-> PriorityForAction(action)]

\* the entry of a PR whose data was found: one iteration of the loop over
\* pr_numbers, given what the git queries and the commits query return
PrEntry(pr_num, pr_data, readiness_analysis, git, commits_data) ==
    LET title == Get(pr_data, "title", "")
        is_draft == Get(pr_data, "isDraft", FALSE)
        mergeable == Get(pr_data, "mergeable", "UNKNOWN")
        created_at == GetStr(pr_data, "createdAt")
        branch == Get(pr_data, "headRefName", "")
        additions == Get(pr_data, "additions", 0)
        deletions == Get(pr_data, "deletions", 0)
        elapsed == IF created_at \notin {NoStr, Str("")}
                   THEN GetElapsedMinutes(created_at) ELSE 0
        branch_progress == GetBranchProgress(branch, git)
        commit_msg == Get(branch_progress, "latest_commit", "")
        commit_count == Len(GetPrCommits(commits_data))
    IN  IF UseReadiness(readiness_analysis)
        THEN IF ~(ReadinessKeys \subseteq DOMAIN readiness_analysis)
             THEN KeyError
             ELSE
             LET path == ReadinessPath(readiness_analysis, is_draft)
             IN  [pr_number |-> pr_num, title |-> title, is_draft |-> is_draft,
                  mergeable |-> mergeable, branch |-> branch,
                  elapsed_minutes |-> elapsed, latest_commit_msg |-> commit_msg,
                  pr_status |-> path.pr_status,
                  action_needed |-> path.action_needed,
                  priority |-> path.priority,
                  additions |-> additions, deletions |-> deletions,
                  commit_count |-> commit_count,
                  branch_progress |-> branch_progress,
                  readiness_analysis |->
                      [ready |-> readiness_analysis.ready_for_review,
                       confidence |-> readiness_analysis.confidence,
                       reasons |-> readiness_analysis.reasons,
                       recommendation |-> readiness_analysis.recommendation,
                       file_analysis |->
                           [files_changed |->
                                readiness_analysis.stats.files_changed,
                            has_real_implementation |->
                                readiness_analysis.analysis.has_real_implementation,
                            yarn_lock_only |->
                                readiness_analysis.analysis.yarn_lock_only],
                       commit_analysis |->
                           [has_completion_indicators |->
                                readiness_analysis.analysis.has_completion_indicators,
                            latest_messages |->
                                readiness_analysis.analysis.latest_commit_messages]]]
        ELSE LET path == FallbackPath(commit_msg, is_draft, additions, deletions,
                                      mergeable, elapsed)
             IN  [pr_number |-> pr_num, title |-> title, is_draft |-> is_draft,
                  mergeable |-> mergeable, branch |-> branch,
                  elapsed_minutes |-> elapsed, latest_commit_msg |-> commit_msg,
                  pr_status |-> path.pr_status,
                  action_needed |-> path.action_needed,
                  priority |-> path.priority,
                  additions |-> additions, deletions |-> deletions,
                  commit_count |-> commit_count,
                  branch_progress |-> branch_progress,
                  readiness_analysis |-> None]

\* the entry of a PR whose data was not found
PrNotFound(pr_num) ==
    [pr_number |-> pr_num, error |-> "PR not found",
     action_needed |-> "investigate", priority |-> "high"]

\* one iteration of the loop over pr_numbers; answers holds what the queries
\* of the main thread (git, commits) return for each PR
EntryFor(pr_num, data_results, analysis_results, answers) ==
    LET pr_data == DictGet(data_results, pr_num)
        readiness_analysis == Get(analysis_results, pr_num, None)
    IN  IF Truthy(pr_data)
        THEN PrEntry(pr_num, pr_data, readiness_analysis,
                     answers[pr_num].git, answers[pr_num].commits_data)
        ELSE PrNotFound(pr_num)

\* ProcessResults looping over pr_data_results, the order of completion
ProcessResultsAsCompleted(numbers, data_results, analysis_results, answers) ==
    [i \in 1..Len(data_results) |->
        EntryFor(data_results[i][1], data_results, analysis_results, answers)]

\* ProcessResults skipping the PRs whose data was not found
ProcessResultsSkipping(numbers, data_results, analysis_results, answers) ==
    LET found == SelectSeq(numbers,
                           LAMBDA n : Truthy(DictGet(data_results, n)))
    IN  [i \in 1..Len(found) |->
            EntryFor(found[i], data_results, analysis_results, answers)]

\* the loop over pr_numbers: the entries, in the order of pr_numbers
ProcessResults(numbers, data_results, analysis_results, answers) ==
    [i \in 1..Len(numbers) |->
        EntryFor(numbers[i], data_results, analysis_results, answers)]

\* analyze_copilot_progress
AnalyzeCopilotProgress(issue_num, pr_data, branch_progress) ==
    IF ~Truthy(pr_data)
    THEN [status |-> "no_pr", action |-> "check_branch_activity",
          priority |-> "medium",
          message |-> "No PR found, check if agent is working on feature branch"]
    ELSE
        LET elapsed == GetElapsedMinutes(Str(Get(pr_data, "createdAt", "")))
            additions == Get(pr_data, "additions", 0)
            deletions == Get(pr_data, "deletions", 0)
            latest_commit == Get(branch_progress, "latest_commit", "")
        IN  IF additions = 3510 /\ deletions = 5146 /\ elapsed > 20
            THEN [status |-> "yarn_lock_only", action |-> "investigate",
                  priority |-> "medium",
                  message |-> "PR contains only yarn.lock changes - may indicate setup phase or blocked work"]
            ELSE
                LET status == PrStatus(latest_commit, Get(pr_data, "isDraft", FALSE),
                                       additions, deletions)
                    action == ActionNeeded(Get(pr_data, "mergeable", "UNKNOWN"),
                                           status, elapsed)
                IN  [status |-> status, action |-> action,
                     priority |-> PriorityForAction(action),
                     elapsed_minutes |-> elapsed,
                     commit_count |-> Get(branch_progress, "commits", 0),
                     latest_commit |-> latest_commit]

\* one iteration of the loop of collect_copilot_issues over an issue whose
\* data was found; issue holds what the queries about it return, related_pr
\* being <<>> for None and <<n>> for the PR number n
CopilotIssueEntry(issue) ==
    LET related_pr_num == issue.related_pr
        pr_data == IF related_pr_num # <<>> THEN issue.pr_data ELSE None
        branch == IF Truthy(pr_data) THEN Get(pr_data, "headRefName", "") ELSE ""
        branch_progress == IF branch # "" THEN GetBranchProgress(branch, issue.git)
                           ELSE <<>>
        progress_analysis ==
            AnalyzeCopilotProgress(issue.issue_number, pr_data, branch_progress)
    IN  [issue_number |-> issue.issue_number,
         title        |-> Get(issue.issue_data, "title", ""),
         related_pr   |-> related_pr_num,
         status       |-> progress_analysis.status,
         action       |-> progress_analysis.action,
         priority     |-> progress_analysis.priority,
         progress     |->
             [elapsed_minutes |-> Get(progress_analysis, "elapsed_minutes", 0),
              commit_count    |-> Get(progress_analysis, "commit_count", 0),
              latest_commit   |-> Get(progress_analysis, "latest_commit", "")],
         message      |-> Get(progress_analysis, "message", "")]

RECURSIVE CollectCopilotIssues(_)
\* collect_copilot_issues, given what the queries return for each assigned
\* issue: an issue without data is skipped
CollectCopilotIssues(assigned) ==
    IF assigned = <<>> THEN <<>>
    ELSE (IF Truthy(Head(assigned).issue_data)
          THEN <<CopilotIssueEntry(Head(assigned))>> ELSE <<>>)
             \o CollectCopilotIssues(Tail(assigned))

\* Count started from the number of earlier calls, not from zero
CountRunning(positions) == Cardinality(positions) + Len(summaries)

\* sum(1 for x in xs if P(x)), given the positions where P holds
Count(positions) == Cardinality(positions)

\* generate_summary
GenerateSummary(pr_entries, issue_entries) ==
    LET blocked_count ==
            Count({i \in 1..Len(pr_entries) :
                      GetStr(pr_entries[i], "mergeable") = Str("CONFLICTING")})
        ready_count ==
            Count({i \in 1..Len(pr_entries) :
                      /\ GetStr(pr_entries[i], "pr_status") = Str("ready_for_review")
                      /\ GetStr(pr_entries[i], "mergeable") = Str("MERGEABLE")})
        investigate_count ==
            Count({i \in 1..Len(pr_entries) : Get(pr_entries[i], "elapsed_minutes", 0) > 45})
    IN  [blocked_count             |-> blocked_count,
         ready_for_review_count    |-> ready_count,
         needs_investigation_count |-> investigate_count,
         normal_progress_count     |->
             Len(pr_entries) - blocked_count - ready_count - investigate_count,
         total_prs                 |-> Len(pr_entries),
         copilot_active_issues     |->
             Count({i \in 1..Len(issue_entries) :
                       GetStr(issue_entries[i], "status")
                           \in {Str("in_progress"), Str("draft")}}),
         copilot_blocked_issues    |->
             Count({i \in 1..Len(issue_entries) :
                       GetStr(issue_entries[i], "action") = Str("investigate")}),
         total_copilot_issues      |-> Len(issue_entries)]

\* an item of the recommended actions that carries a count
Counted(priority, action, count, message) ==
    [priority |-> priority, action |-> action, count |-> count,
     message |-> message]

\* ShouldMonitor looking at the PRs only
ShouldMonitorPrs(counts) == counts.total_prs > 0

\* summary["total_prs"] > 0 or summary["total_copilot_issues"] > 0
ShouldMonitor(counts) == counts.total_prs > 0 \/ counts.total_copilot_issues > 0

\* generate_recommendations
GenerateRecommendations(pr_entries, issue_entries, counts) ==
    (IF counts.blocked_count > 0
     THEN <<Counted("high", "resolve_merge_conflicts", counts.blocked_count,
                    "Merge conflicts are blocking progress")>>
     ELSE <<>>)
    \o (IF counts.copilot_blocked_issues > 0
        THEN <<Counted("high", "investigate", counts.copilot_blocked_issues,
                       "GitHub Copilot issue_entries need attention")>>
        ELSE <<>>)
    \o (IF counts.ready_for_review_count > 0
        THEN <<Counted("medium", "review_ready", counts.ready_for_review_count,
                       "PRs are ready for review")>>
        ELSE <<>>)
    \o (IF counts.needs_investigation_count > 0
        THEN <<Counted("medium", "investigate", counts.needs_investigation_count,
                       "Long-running PRs may need attention")>>
        ELSE <<>>)
    \o (IF ShouldMonitor(counts)
        THEN <<[priority |-> "low", action |-> "monitor_progress",
                next_check_minutes |-> 20,
                message |-> "Continue monitoring active work"]>>
        ELSE <<>>)

-----------------------------------------------------------------------------
(* Bounds and the inputs drawn within them *)

MaxCommits == 4     \* commits of a PR in SpecCommits
MaxFiles == 3       \* changed files of a PR in SpecChanges
FewCommits == 1     \* commits of a PR in SpecAnalysis and SpecRerun
FewFiles == 2       \* changed files of a PR in SpecAnalysis
MaxRuns == 2        \* runs of the analysis on one snapshot
MaxNow == 1         \* ticks of the clock
MaxElapsed == 61    \* minutes since the PR was created
MaxClockMinutes == 12   \* the latest minute of the clock in SpecElapsed
MaxPrs == 2         \* open PRs of the repository in SpecCollect
MaxEntries == 2     \* PR entries of the list in SpecSummary
MaxCalls == 2       \* calls of generate_summary on one pair of lists

SeqsUpTo(S, n) == UNION {[1..k -> S] : k \in 0..n}

Headlines ==
    {"Implementation COMPLETE", "wip: scaffolding", "Final setup", "Fix parser"}

\* a commit of the JSON: with its headline, or without one
CommitValues == {[messageHeadline |-> h] : h \in Headlines} \cup {[oid |-> "c0ffee"]}

\* what the commits query can yield with at most n commits: nothing, an
\* object without commits, or an object with the commits, oldest first
CommitsData(n) ==
    {None, [number |-> 1]} \cup {[commits |-> cs] : cs \in SeqsUpTo(CommitValues, n)}

FileNames == {"yarn.lock", "package-lock.json", "src/app.ts", "web/yarn.lock"}

RECURSIVE JoinLines(_)
\* the lines of an output, one per line
JoinLines(lines) ==
    IF Len(lines) = 0 THEN ""
    ELSE IF Len(lines) = 1 THEN lines[1]
    ELSE lines[1] \o "\n" \o JoinLines(Tail(lines))

\* what run("gh pr diff --name-only") can return with at most n files
DiffOutputs(n) ==
    {None} \cup {[stdout |-> JoinLines(fs)] : fs \in SeqsUpTo(FileNames, n)}

Mergeables == {"MERGEABLE", "CONFLICTING", "UNKNOWN"}

\* what get_pr_data can return: None, an empty object, or an object in which
\* isDraft and mergeable are each present or missing
PrDataValues ==
    {None, <<>>}
    \cup {[number |-> 1]}
    \cup {[number |-> 1, isDraft |-> d] : d \in BOOLEAN}
    \cup {[number |-> 1, mergeable |-> m] : m \in Mergeables}
    \cup {[number |-> 1, isDraft |-> d, mergeable |-> m] :
              d \in BOOLEAN, m \in Mergeables}

CommitMsgs ==
    {"", "Implementation complete", "complete the parser", "WIP: parser",
     "Fix parser"}

\* the arguments of the fallback path
FallbackInputs ==
    [commit_msg : CommitMsgs, is_draft : BOOLEAN,
     additions : {0, 400, 3510}, deletions : {600, 601, 5146},
     mergeable : Mergeables, elapsed : 0..MaxElapsed]

\* the values of createdAt: missing, empty, no timestamp, an impossible
\* date, timestamps in UTC (with Z or +00:00), one with another offset, and
\* one without an offset
CreatedAtValues ==
    {NoStr, Str(""), Str("yesterday"), Str("2024-13-01T00:00:00Z"),
     Str("2024-01-01T00:00:00Z"), Str("2024-01-01T00:10:30Z"),
     Str("2024-01-01T00:02:00+00:00"), Str("2024-01-01T01:00:30+01:00"),
     Str("2024-01-01T00:10:30")}

\* the clock at whole minutes and within them
ClockValues == {m * 60 + sec : m \in 0..MaxClockMinutes, sec \in {0, 30, 59}}

\* The PRs of the repository: for each, the data of the PR, the parsed
\* output of the commits query, the output of the diff query and the outputs
\* of the git queries about its branch.

\* a small fix, open for 39 minutes at CollectNow
FixParser(n) ==
    [pr_data |-> [number |-> n, title |-> "Fix parser", isDraft |-> FALSE,
                  mergeable |-> "MERGEABLE",
                  createdAt |-> "2024-01-01T00:10:30Z",
                  headRefName |-> "fix/parser", additions |-> 10,
                  deletions |-> 2],
     commits |-> [commits |-> <<[messageHeadline |-> "Fix parser"]>>],
     changes |-> [stdout |-> "src/app.ts"],
     git |-> [count |-> "1", oneline |-> "c0ffee1 Fix parser",
              activity |-> "2024-01-01 00:40:00 +0000"]]

\* a draft that regenerated the lock files and claims completion, open for
\* 50 minutes
LockFilesDraft(n) ==
    [pr_data |-> [number |-> n, title |-> "Add scoreboard", isDraft |-> TRUE,
                  mergeable |-> "UNKNOWN",
                  createdAt |-> "2024-01-01T00:00:00Z",
                  headRefName |-> "copilot/scoreboard", additions |-> 3510,
                  deletions |-> 5146],
     commits |-> [commits |-> <<[messageHeadline |-> "wip: scaffolding"],
                                [messageHeadline |-> "Implementation COMPLETE"]>>],
     changes |-> [stdout |-> "package-lock.json\nyarn.lock"],
     git |-> [count |-> "2", oneline |-> "deadbee Implementation COMPLETE",
              activity |-> "2024-01-01 00:45:00 +0000"]]

\* a large change in conflict with the base branch, open for 50 minutes
Conflicting(n) ==
    [pr_data |-> [number |-> n, title |-> "Rework physics", isDraft |-> FALSE,
                  mergeable |-> "CONFLICTING",
                  createdAt |-> "2024-01-01T00:00:00Z",
                  headRefName |-> "feature/physics", additions |-> 800,
                  deletions |-> 300],
     commits |-> [commits |-> <<[messageHeadline |-> "Final setup"]>>],
     changes |-> [stdout |-> "src/app.ts\nweb/yarn.lock"],
     git |-> [count |-> "1", oneline |-> "abad1de Final setup",
              activity |-> "2024-01-01 00:30:00 +0000"]]

\* a finished change, open for 48 minutes
Finished(n) ==
    [pr_data |-> [number |-> n, title |-> "Add pause menu", isDraft |-> FALSE,
                  mergeable |-> "MERGEABLE",
                  createdAt |-> "2024-01-01T00:02:00+00:00",
                  headRefName |-> "feature/pause", additions |-> 400,
                  deletions |-> 700],
     commits |-> [commits |-> <<[messageHeadline |-> "Implementation complete"]>>],
     changes |-> [stdout |-> "src/app.ts\nsrc/menu.ts"],
     git |-> [count |-> "1", oneline |-> "f00dfed Implementation complete",
              activity |-> "2024-01-01 00:48:00 +0000"]]

\* a change announced as ready whose mergeability GitHub has not computed
\* yet, open for 39 minutes
Announced(n) ==
    [pr_data |-> [number |-> n, title |-> "Add high scores", isDraft |-> FALSE,
                  mergeable |-> "UNKNOWN",
                  createdAt |-> "2024-01-01T00:10:30Z",
                  headRefName |-> "feature/scores", additions |-> 120,
                  deletions |-> 30],
     commits |-> [commits |-> <<[messageHeadline |-> "Ready for review"]>>],
     changes |-> [stdout |-> "src/scores.ts\nsrc/app.ts"],
     git |-> [count |-> "1", oneline |-> "5c0re55 Ready for review",
              activity |-> "2024-01-01 00:49:00 +0000"]]

\* the data of a PR after its mergeability changed: the conflict was resolved,
\* or the base branch moved and the PR is in conflict now
Recomputed(pr_data) ==
    [pr_data EXCEPT !.mergeable = IF @ = "CONFLICTING" THEN "MERGEABLE"
                                  ELSE "CONFLICTING"]

\* the repositories with n open PRs, numbered 1..n: small work and drafts, or
\* conflicts and finished changes, or the announced change alone, or conflicts
\* throughout
Remotes(n) ==
    {[k \in 1..n |-> IF k % 2 = 1 THEN FixParser(k) ELSE LockFilesDraft(k)],
     [k \in 1..n |-> IF k % 2 = 1 THEN Conflicting(k) ELSE Finished(k)],
     [k \in 1..n |-> IF n = 1 THEN Announced(k) ELSE Conflicting(k)]}

\* the clock during collect_all_data: 00:50:00
CollectNow == 3000

\* what the two git queries of collect_git_status return: the answers of a
\* work tree, and the empty outputs of a failing git
GitHeads ==
    {[branch |-> "main", commit |-> "c0ffee1 Fix parser"],
     [branch |-> "", commit |-> ""]}

\* the numbers 1..n as `gh pr list` gives them, newest first
NewestFirst(n) == [i \in 1..n |-> n - i + 1]

\* what the queries of collect_copilot_issues return about an assigned issue:
\* one whose data is not found
LostIssue ==
    [issue_number |-> 7, issue_data |-> None, related_pr |-> <<>>,
     pr_data |-> None, git |-> GitDown]

\* one no PR refers to
UnstartedIssue ==
    [issue_number |-> 8,
     issue_data |-> [number |-> 8, title |-> "Add scoreboard",
                     createdAt |-> "2024-01-01T00:00:00Z"],
     related_pr |-> <<>>, pr_data |-> None, git |-> GitDown]

\* one whose PR regenerated the lock files
LockFilesIssue ==
    [issue_number |-> 9,
     issue_data |-> [number |-> 9, title |-> "Add scoreboard"],
     related_pr |-> <<2>>, pr_data |-> LockFilesDraft(2).pr_data,
     git |-> LockFilesDraft(2).git]

\* one whose PR is in conflict
ConflictingIssue ==
    [issue_number |-> 10,
     issue_data |-> [number |-> 10, title |-> "Rework physics"],
     related_pr |-> <<1>>, pr_data |-> Conflicting(1).pr_data,
     git |-> Conflicting(1).git]

\* one whose PR is found in the list but whose data is not
UnreadableIssue ==
    [issue_number |-> 11,
     issue_data |-> [number |-> 11, title |-> "Add pause menu"],
     related_pr |-> <<2>>, pr_data |-> None, git |-> GitDown]

\* what the queries can return about the assigned issues
AssignedIssues ==
    {<<>>, <<LostIssue>>, <<UnstartedIssue, LockFilesIssue>>,
     <<ConflictingIssue, LostIssue, LockFilesIssue>>, <<UnreadableIssue>>}

-----------------------------------------------------------------------------
(* The state machine *)

\* nothing has been asked of get_elapsed_minutes
ElapsedIdle == el_in = NoStr /\ el_out = <<>>

\* collect_all_data has not been called
CollectIdle ==
    /\ pc = "idle"
    /\ remote = <<>>
    /\ pr_numbers = <<>>
    /\ pr_data_results = <<>>
    /\ readiness_results = <<>>
    /\ git_status = None
    /\ prs = <<>>
    /\ issues = <<>>
    /\ summary = None
    /\ recommendations = <<>>
    /\ report = None

RestIdle == ElapsedIdle /\ CollectIdle /\ summaries = <<>>

InitWith(P, C, D, F) ==
    /\ gh_pr_data \in P
    /\ gh_commits \in C
    /\ gh_diff_names \in D
    /\ fb_in \in F
    /\ now = 0
    /\ readiness_check = None
    /\ analyses = <<>>
    /\ fb_out = None
    /\ RestIdle

\* one call of check_pr_readiness
DoCheckPrReadiness ==
    /\ readiness_check = None
    /\ readiness_check' = CheckPrReadiness(gh_commits, gh_diff_names)
    /\ UNCHANGED <<gh_pr_data, gh_commits, gh_diff_names, now, analyses, fb_in, fb_out>>
    /\ UNCHANGED restVars

\* one call of get_pr_review_readiness_analysis
DoAnalysis ==
    /\ Len(analyses) < MaxRuns
    /\ analyses' = Append(analyses,
           [at |-> now,
            result |-> GetPrReviewReadinessAnalysis(1, gh_pr_data, gh_commits,
                                                    gh_diff_names)])
    /\ UNCHANGED <<gh_pr_data, gh_commits, gh_diff_names, now, readiness_check,
                   fb_in, fb_out>>
    /\ UNCHANGED restVars

\* time passes
Tick ==
    /\ now < MaxNow
    /\ now' = now + 1
    /\ UNCHANGED <<gh_pr_data, gh_commits, gh_diff_names, readiness_check, analyses,
                   fb_in, fb_out>>
    /\ UNCHANGED restVars

\* the fallback path of collect_pr_data: status, action and priority
DoFallback ==
    /\ fb_out = None
    /\ LET status == PrStatus(fb_in.commit_msg, fb_in.is_draft,
                              fb_in.additions, fb_in.deletions)
           action == ActionNeeded(fb_in.mergeable, status, fb_in.elapsed)
       IN  fb_out' = [pr_status |-> status, action_needed |-> action,
                      priority |-> PriorityForAction(action)]
    /\ UNCHANGED <<gh_pr_data, gh_commits, gh_diff_names, now, readiness_check,
                   analyses, fb_in>>
    /\ UNCHANGED restVars

NoFallback == [commit_msg |-> "", is_draft |-> FALSE, additions |-> 0,
               deletions |-> 0, mergeable |-> "UNKNOWN", elapsed |-> 0]

\* the commit scan of check_pr_readiness, over every list of commits
InitCommits ==
    InitWith({None}, CommitsData(MaxCommits), DiffOutputs(0), {NoFallback})

SpecCommits == InitCommits /\ [][DoCheckPrReadiness]_vars

\* the file analysis of check_pr_readiness, over every list of changed files
InitChanges ==
    InitWith({None}, CommitsData(0), DiffOutputs(MaxFiles), {NoFallback})

SpecChanges == InitChanges /\ [][DoCheckPrReadiness]_vars

\* get_pr_review_readiness_analysis, over every PR data value and the short
\* lists of commits and changed files
InitAnalysis ==
    InitWith(PrDataValues, CommitsData(FewCommits), DiffOutputs(FewFiles), {NoFallback})

SpecAnalysis == InitAnalysis /\ [][DoAnalysis]_vars

\* three outputs of the diff query: none, a lock file alone, source files
SomeDiffOutputs ==
    {None, [stdout |-> "yarn.lock"], [stdout |-> "src/app.ts\nweb/yarn.lock"]}

\* get_pr_review_readiness_analysis, run repeatedly on one snapshot while
\* time passes
InitRerun ==
    InitWith(PrDataValues, CommitsData(FewCommits), SomeDiffOutputs, {NoFallback})

NextRerun == DoAnalysis \/ Tick

SpecRerun == InitRerun /\ [][NextRerun]_vars

\* one call of get_elapsed_minutes
DoGetElapsedMinutes ==
    /\ el_out = <<>>
    /\ el_out' = <<GetElapsedMinutes(el_in)>>
    /\ UNCHANGED <<gh_pr_data, gh_commits, gh_diff_names, now, readiness_check,
                   analyses, fb_in, fb_out, el_in, collectVars, summaries>>

\* get_elapsed_minutes, over the createdAt values and the clock
InitElapsed ==
    /\ gh_pr_data = None
    /\ gh_commits = None
    /\ gh_diff_names = None
    /\ fb_in = NoFallback
    /\ now \in ClockValues
    /\ readiness_check = None
    /\ analyses = <<>>
    /\ fb_out = None
    /\ el_in \in CreatedAtValues
    /\ el_out = <<>>
    /\ CollectIdle
    /\ summaries = <<>>

SpecElapsed == InitElapsed /\ [][DoGetElapsedMinutes]_vars

\* the variables collect_all_data leaves alone
unitVars == <<gh_pr_data, gh_commits, gh_diff_names, now, readiness_check,
              analyses, fb_in, fb_out, elapsedVars, summaries>>

\* collect_git_status
DoCollectGitStatus ==
    /\ pc = "start"
    /\ \E head \in GitHeads : git_status' = CollectGitStatus(head)
    /\ pc' = "open_prs"
    /\ UNCHANGED <<remote, pr_numbers, pr_data_results, readiness_results, prs,
                   issues, summary, recommendations, report, unitVars>>

\* collect_pr_data up to the submission of the tasks: the list of the open
\* PRs, empty when the query fails, and the early return on an empty list
DoGetOpenPrs ==
    /\ pc = "open_prs"
    /\ \E listed \in BOOLEAN :
           /\ pr_numbers' = IF listed THEN NewestFirst(Len(remote)) ELSE <<>>
           /\ pc' = IF pr_numbers' = <<>> THEN "issues" ELSE "pr_data"
    /\ prs' = <<>>
    /\ UNCHANGED <<remote, pr_data_results, readiness_results, git_status,
                   issues, summary, recommendations, report, unitVars>>

\* the keys of a dict kept as the sequence of its pairs
Keys(pairs) == {pairs[j][1] : j \in 1..Len(pairs)}

\* the PR numbers of the list
Listed == {pr_numbers[i] : i \in 1..Len(pr_numbers)}

\* as_completed(future_to_pr) yields the task of a PR, the next to complete:
\* get_pr_data found the data, found nothing, or the task raised
PrDataCompleted(pr_num) ==
    /\ pc = "pr_data"
    /\ pr_num \in Listed \ Keys(pr_data_results)
    /\ \E outcome \in {"found", "nothing", "raised"} :
           pr_data_results' =
               Append(pr_data_results,
                      <<pr_num, IF outcome = "found" THEN remote[pr_num].pr_data
                                ELSE None>>)
    /\ pc' = IF Listed \subseteq Keys(pr_data_results') THEN "readiness"
             ELSE "pr_data"
    /\ UNCHANGED <<remote, pr_numbers, readiness_results, git_status, prs,
                   issues, summary, recommendations, report, unitVars>>

\* as_completed(readiness_futures) yields the task of a PR, the next to
\* complete: the analysis of the PR, the analysis of the PR as its own
\* get_pr_data query saw it when the mergeability had changed since the query
\* of the other task, the analysis without commits and files (their queries
\* failed), the record of a PR that was not found, or the task raised
ReadinessCompleted(pr_num) ==
    /\ pc = "readiness"
    /\ pr_num \in Listed \ DOMAIN readiness_results
    /\ \E outcome \in {"analysed", "recomputed", "no_details", "not_found",
                       "raised"} :
           LET result ==
                   CASE outcome = "analysed" ->
                            GetPrReviewReadinessAnalysis(
                                pr_num, remote[pr_num].pr_data,
                                remote[pr_num].commits, remote[pr_num].changes)
                     [] outcome = "recomputed" ->
                            GetPrReviewReadinessAnalysis(
                                pr_num, Recomputed(remote[pr_num].pr_data),
                                remote[pr_num].commits, remote[pr_num].changes)
                     [] outcome = "no_details" ->
                            GetPrReviewReadinessAnalysis(
                                pr_num, remote[pr_num].pr_data, None, None)
                     [] outcome = "not_found" ->
                            GetPrReviewReadinessAnalysis(pr_num, None, None, None)
                     [] outcome = "raised" -> None
           IN  readiness_results' =
                   [k \in DOMAIN readiness_results \cup {pr_num} |->
                       IF k = pr_num THEN result ELSE readiness_results[k]]
    /\ pc' = IF Listed \subseteq DOMAIN readiness_results' THEN "process"
             ELSE "readiness"
    /\ UNCHANGED <<remote, pr_numbers, pr_data_results, git_status, prs, issues,
                   summary, recommendations, report, unitVars>>

\* what the git and commits queries of the loop return for each PR: the
\* answers of the repository, or nothing
Answers(up) ==
    [k \in DOMAIN remote |->
        IF up THEN [git |-> remote[k].git, commits_data |-> remote[k].commits]
        ELSE [git |-> GitDown, commits_data |-> None]]

\* the loop over pr_numbers; the git and commits queries it makes succeed or
\* fail.  A KeyError leaves collect_all_data.
DoProcessResults ==
    /\ pc = "process"
    /\ \E up \in BOOLEAN :
           \E built \in {ProcessResults(pr_numbers, pr_data_results,
                                        readiness_results, Answers(up))} :
               IF \E i \in 1..Len(built) : built[i] = KeyError
               THEN pc' = "aborted" /\ prs' = prs
               ELSE pc' = "return_prs" /\ prs' = built
    /\ UNCHANGED <<remote, pr_numbers, pr_data_results, readiness_results,
                   git_status, issues, summary, recommendations, report, unitVars>>

\* return prs: the locals of collect_pr_data are gone
ReturnPrs ==
    /\ pc = "return_prs"
    /\ pr_numbers' = <<>>
    /\ pr_data_results' = <<>>
    /\ readiness_results' = <<>>
    /\ pc' = "issues"
    /\ UNCHANGED <<remote, git_status, prs, issues, summary, recommendations,
                   report, unitVars>>

\* collect_copilot_issues
DoCollectCopilotIssues ==
    /\ pc = "issues"
    /\ \E assigned \in AssignedIssues : issues' = CollectCopilotIssues(assigned)
    /\ pc' = "summary"
    /\ UNCHANGED <<remote, pr_numbers, pr_data_results, readiness_results, git_status, prs,
                   summary, recommendations, report, unitVars>>

\* generate_summary
DoGenerateSummary ==
    /\ pc = "summary"
    /\ summary' = GenerateSummary(prs, issues)
    /\ pc' = "recommend"
    /\ UNCHANGED <<remote, pr_numbers, pr_data_results, readiness_results,
                   git_status, prs, issues, recommendations, report, unitVars>>

\* generate_recommendations
DoGenerateRecommendations ==
    /\ pc = "recommend"
    /\ recommendations' = GenerateRecommendations(prs, issues, summary)
    /\ pc' = "return"
    /\ UNCHANGED <<remote, pr_numbers, pr_data_results, readiness_results,
                   git_status, prs, issues, summary, report, unitVars>>

\* the return of collect_all_data
ReturnReport ==
    /\ pc = "return"
    /\ report' = [timestamp |-> IsoFormat(now),
                  dashboard_type |-> "process_management",
                  git_status |-> git_status,
                  prs |-> prs,
                  copilot_issues |-> issues,
                  summary |-> summary,
                  recommended_actions |-> recommendations]
    /\ pc' = "done"
    /\ UNCHANGED <<remote, pr_numbers, pr_data_results, readiness_results,
                   git_status, prs, issues, summary, recommendations, unitVars>>

\* collect_all_data on a repository with up to MaxPrs open PRs
InitCollect ==
    /\ gh_pr_data = None
    /\ gh_commits = None
    /\ gh_diff_names = None
    /\ fb_in = NoFallback
    /\ now = CollectNow
    /\ readiness_check = None
    /\ analyses = <<>>
    /\ fb_out = None
    /\ ElapsedIdle
    /\ pc = "start"
    /\ remote \in UNION {Remotes(n) : n \in 0..MaxPrs}
    /\ pr_numbers = <<>>
    /\ pr_data_results = <<>>
    /\ readiness_results = <<>>
    /\ git_status = None
    /\ prs = <<>>
    /\ issues = <<>>
    /\ summary = None
    /\ recommendations = <<>>
    /\ report = None
    /\ summaries = <<>>

NextCollect ==
    \/ DoCollectGitStatus
    \/ DoGetOpenPrs
    \/ \E pr_num \in DOMAIN remote : PrDataCompleted(pr_num)
    \/ \E pr_num \in DOMAIN remote : ReadinessCompleted(pr_num)
    \/ DoProcessResults
    \/ ReturnPrs
    \/ DoCollectCopilotIssues
    \/ DoGenerateSummary
    \/ DoGenerateRecommendations
    \/ ReturnReport

SpecCollect == InitCollect /\ [][NextCollect]_vars

\* the five kinds of PR, numbered n
Profiles(n) ==
    {FixParser(n), LockFilesDraft(n), Conflicting(n), Finished(n), Announced(n)}

\* the analyses the readiness task can leave for a PR: with its commits and
\* files, the same after the mergeability changed, without commits and files,
\* the record of a PR not found, and None
AnalysesOf(profile) ==
    {GetPrReviewReadinessAnalysis(profile.pr_data.number, profile.pr_data,
                                  profile.commits, profile.changes),
     GetPrReviewReadinessAnalysis(profile.pr_data.number,
                                  Recomputed(profile.pr_data),
                                  profile.commits, profile.changes),
     GetPrReviewReadinessAnalysis(profile.pr_data.number, profile.pr_data,
                                  None, None),
     GetPrReviewReadinessAnalysis(profile.pr_data.number, None, None, None),
     None}

\* the entries collect_pr_data can build for PR number n
EntriesOf(n) ==
    {PrNotFound(n)}
    \cup UNION {{PrEntry(n, profile.pr_data, analysis, profile.git,
                         profile.commits) : analysis \in AnalysesOf(profile)} :
                    profile \in Profiles(n)}

\* the lists of k entries collect_pr_data can return, newest PR first
PrLists(k) ==
    {list \in [1..k -> UNION {EntriesOf(n) : n \in 1..k}] :
         \A i \in 1..k : list[i].pr_number = k - i + 1}

\* the lists collect_copilot_issues can return
IssueLists == {CollectCopilotIssues(assigned) : assigned \in AssignedIssues}

\* one more call of generate_summary on the two lists; it only reads them
DoSummarize ==
    /\ pc = "summarize"
    /\ Len(summaries) < MaxCalls
    /\ prs' = prs
    /\ issues' = issues
    /\ summaries' = Append(summaries,
                           [prs |-> prs', issues |-> issues',
                            counts |-> GenerateSummary(prs, issues)])
    /\ UNCHANGED <<gh_pr_data, gh_commits, gh_diff_names, now, readiness_check,
                   analyses, fb_in, fb_out, elapsedVars, pc, remote, pr_numbers,
                   pr_data_results, readiness_results, git_status, summary,
                   recommendations, report>>

\* generate_summary, over the lists of entries collect_all_data can pass it
InitSummary ==
    /\ gh_pr_data = None
    /\ gh_commits = None
    /\ gh_diff_names = None
    /\ fb_in = NoFallback
    /\ now = CollectNow
    /\ readiness_check = None
    /\ analyses = <<>>
    /\ fb_out = None
    /\ ElapsedIdle
    /\ pc = "summarize"
    /\ remote = <<>>
    /\ pr_numbers = <<>>
    /\ pr_data_results = <<>>
    /\ readiness_results = <<>>
    /\ git_status = None
    /\ prs \in UNION {PrLists(k) : k \in 0..MaxEntries}
    /\ issues \in IssueLists
    /\ summary = None
    /\ recommendations = <<>>
    /\ report = None
    /\ summaries = <<>>

SpecSummary == InitSummary /\ [][DoSummarize]_vars

\* the fallback path
InitFallback ==
    InitWith({None}, {None}, {None}, FallbackInputs)

SpecFallback == InitFallback /\ [][DoFallback]_vars

Init == InitWith(PrDataValues, CommitsData(FewCommits), SomeDiffOutputs,
                 {f \in FallbackInputs :
                      f.commit_msg = "" /\ f.additions = 0 /\ f.elapsed = MaxElapsed})

Next == DoCheckPrReadiness \/ DoAnalysis \/ Tick \/ DoFallback

Spec == Init /\ [][Next]_vars

-----------------------------------------------------------------------------
(* The decision rule as the specification states it: seven rules in order,   *)
(* over the signals of a PR.                                                 *)

\* the signals a run classified: mergeable and isDraft as the PR data gives
\* them (UNKNOWN and false when missing), the four flags as the run's
\* analysis reports them
Signal(v) ==
    [mergeable |-> IF "mergeable" \in DOMAIN gh_pr_data
                   THEN gh_pr_data.mergeable ELSE "UNKNOWN",
     isDraft |-> IF "isDraft" \in DOMAIN gh_pr_data THEN gh_pr_data.isDraft ELSE FALSE,
     yarnLockOnly |-> v.analysis.yarn_lock_only,
     hasCompletionIndicators |-> v.analysis.has_completion_indicators,
     hasRealImplementation |-> v.analysis.has_real_implementation,
     hasPlanningIndicators |-> v.analysis.has_planning_indicators]

RuleGuard(k, sig) ==
    CASE k = 1 -> sig.mergeable = "CONFLICTING"
      [] k = 2 -> sig.yarnLockOnly
      [] k = 3 -> sig.hasCompletionIndicators /\ ~sig.isDraft
      [] k = 4 -> sig.hasRealImplementation /\ ~sig.isDraft
      [] k = 5 -> sig.isDraft /\ sig.hasCompletionIndicators
      [] k = 6 -> sig.hasPlanningIndicators
      [] k = 7 -> TRUE

\* the first rule whose condition holds
FirstMatch(sig) ==
    CHOOSE k \in 1..7 : RuleGuard(k, sig) /\ \A j \in 1..(k - 1) : ~RuleGuard(j, sig)

RuleRecommendation(k) ==
    CASE k = 1 -> "resolve_conflicts"
      [] k = 2 -> "wait"
      [] k = 3 -> "review_ready"
      [] k = 4 -> "review_ready"
      [] k = 5 -> "convert_to_ready"
      [] k = 6 -> "wait"
      [] k = 7 -> "investigate"

RuleReason(k) ==
    CASE k = 1 -> "Has merge conflicts"
      [] k = 2 -> "Only yarn.lock changes - likely setup phase"
      [] k = 3 -> "Has completion indicators in commits"
      [] k = 4 -> "Has substantial implementation"
      [] k = 5 -> "Claims completion but still marked as draft"
      [] k = 6 -> "Still in planning/setup phase"
      [] k = 7 -> "Unclear status - needs manual review"

\* the runs so far that returned a verdict, not the error record
VerdictRuns == {i \in 1..Len(analyses) : "recommendation" \in DOMAIN analyses[i].result}

\* the verdict of run i
Verdict(i) == analyses[i].result

-----------------------------------------------------------------------------
(* Claims *)

\* C1: a PR whose mergeable value is CONFLICTING gets the recommendation
\* resolve_conflicts, whatever its draft flag, changed files and commit
\* messages are.
C1_ConflictingResolves ==
    \A i \in 1..Len(analyses) :
        ("mergeable" \in DOMAIN gh_pr_data /\ gh_pr_data.mergeable = "CONFLICTING")
            => /\ i \in VerdictRuns
               /\ Verdict(i).recommendation = "resolve_conflicts"

\* a conflicting draft PR that changes only yarn.lock and claims completion
\* has been analysed
C1_Witness ==
    \E i \in VerdictRuns :
        /\ Verdict(i).mergeable = "CONFLICTING"
        /\ Verdict(i).is_draft
        /\ Verdict(i).analysis.yarn_lock_only
        /\ Verdict(i).analysis.has_completion_indicators
        /\ Verdict(i).analysis.has_planning_indicators

\* C2: the recommendation of every verdict is that of the first rule, in the
\* order 1..7, whose condition the signals satisfy.
C2_FirstMatchingRuleWins ==
    \A i \in VerdictRuns :
        Verdict(i).recommendation = RuleRecommendation(FirstMatch(Signal(Verdict(i))))

\* rule 4 decided a verdict although rule 6 matches as well
C2_Witness ==
    \E i \in VerdictRuns :
        /\ FirstMatch(Signal(Verdict(i))) = 4
        /\ RuleGuard(6, Signal(Verdict(i)))
        /\ Verdict(i).recommendation = "review_ready"

\* C3: the confidence is high exactly when rule 3 or rule 5 is the matching
\* rule, medium exactly when rule 4 is, and low otherwise.
C3_ConfidenceByRule ==
    \A i \in VerdictRuns :
        LET k == FirstMatch(Signal(Verdict(i)))
        IN  /\ Verdict(i).confidence = "high" <=> k \in {3, 5}
            /\ Verdict(i).confidence = "medium" <=> k = 4
            /\ Verdict(i).confidence = "low" <=> k \in {1, 2, 6, 7}

\* rule 5 decided a verdict, with confidence high
C3_Witness ==
    \E i \in VerdictRuns :
        /\ FirstMatch(Signal(Verdict(i))) = 5
        /\ Verdict(i).confidence = "high"

\* C4: the reasons of every verdict are exactly one string, the reason of
\* the rule that decided the recommendation.
C4_OneReason ==
    \A i \in VerdictRuns :
        /\ Len(Verdict(i).reasons) = 1
        /\ Verdict(i).reasons[1] = RuleReason(FirstMatch(Signal(Verdict(i))))

\* a verdict whose signals satisfy rules 1, 2 and 6 carries the reason of
\* rule 1 alone
C4_Witness ==
    \E i \in VerdictRuns :
        /\ RuleGuard(1, Signal(Verdict(i)))
        /\ RuleGuard(2, Signal(Verdict(i)))
        /\ RuleGuard(6, Signal(Verdict(i)))
        /\ Verdict(i).reasons = <<"Has merge conflicts">>

\* C5: yarn_lock_only holds iff the changed-file list has exactly one entry
\* and that entry contains "yarn.lock"; has_real_implementation holds iff the
\* list has more than one entry and some entry contains neither "yarn.lock"
\* nor "package-lock.json"; the two never hold together, and the list holding
\* the single file "yarn.lock" gives yarn_lock_only without
\* has_real_implementation.
C5_FileFlags ==
    readiness_check # None =>
        LET files == readiness_check.changed_files
            yarn == readiness_check.yarn_lock_only
            real == readiness_check.has_real_implementation
        IN  /\ yarn <=> (Len(files) = 1 /\ Contains(files[1], "yarn.lock"))
            /\ real <=> /\ Len(files) > 1
                        /\ \E i \in 1..Len(files) :
                               /\ ~Contains(files[i], "yarn.lock")
                               /\ ~Contains(files[i], "package-lock.json")
            /\ ~(yarn /\ real)
            /\ files = <<"yarn.lock">> => (yarn /\ ~real)

\* the PR whose diff names the one file yarn.lock has been checked
C5_Witness ==
    /\ readiness_check # None
    /\ gh_diff_names # None
    /\ gh_diff_names.stdout = "yarn.lock"
    /\ readiness_check.changed_files = <<"yarn.lock">>
    /\ readiness_check.yarn_lock_only
    /\ ~readiness_check.has_real_implementation

\* what a verdict carries
IsVerdict(r) ==
    /\ {"ready_for_review", "recommendation", "confidence", "reasons"} \subseteq DOMAIN r
    /\ r.ready_for_review \in BOOLEAN
    /\ r.recommendation \in
           {"resolve_conflicts", "review_ready", "convert_to_ready", "wait", "investigate"}
    /\ r.confidence \in {"low", "medium", "high"}
    /\ DOMAIN r.reasons = 1..Len(r.reasons)

\* C6 as stated: every run of the analysis, on any input, returns a verdict
\* with a ready-for-review flag, a recommendation, a confidence and reasons.
C6_AlwaysAVerdict == \A i \in 1..Len(analyses) : IsVerdict(analyses[i].result)

\* C6 amended: a run on PR data that is a non-empty object, whatever fields
\* it lacks and whether or not commits and changed files could be fetched,
\* returns a verdict with a ready-for-review flag, a recommendation, a
\* confidence and reasons; a run on PR data that is missing or empty returns
\* the error record (error "PR not found", ready false) instead.
C6_VerdictOrErrorRecord ==
    \A i \in 1..Len(analyses) :
        IF gh_pr_data # None /\ DOMAIN gh_pr_data # {}
        THEN IsVerdict(analyses[i].result)
        ELSE analyses[i].result = [error |-> "PR not found", ready |-> FALSE]

\* a PR whose data lacks isDraft and mergeable, and whose commits and diff
\* could not be fetched, has been given a verdict
C6_Witness ==
    \E i \in VerdictRuns :
        /\ gh_pr_data = [number |-> 1]
        /\ gh_commits = None
        /\ gh_diff_names = None
        /\ Verdict(i).mergeable = "UNKNOWN"
        /\ Verdict(i).recommendation = "investigate"

\* the spec's keyword sets
CompletionKeywords ==
    {"complete", "ready for review", "implementation complete", "final", "done",
     "finished", "all requirements met", "feature complete", "implementation done"}

PlanningKeywords ==
    {"initial plan", "wip", "work in progress", "planning", "analysis", "setup",
     "preparation", "initial"}

\* the commits the source supplied, oldest first
SuppliedCommits ==
    IF gh_commits # None /\ "commits" \in DOMAIN gh_commits
    THEN gh_commits.commits ELSE <<>>

\* the headline of the n-th supplied commit ("" when it has none)
Headline(n) ==
    IF "messageHeadline" \in DOMAIN SuppliedCommits[n]
    THEN SuppliedCommits[n].messageHeadline ELSE ""

\* the n-th headline contains one of the keywords, whatever the case
Mentions(n, keywords) == \E k \in keywords : Contains(Lower(Headline(n)), k)

\* the positions of the last 3 commits (all of them when there are fewer)
LastThree == {n \in 1..Len(SuppliedCommits) : n > Len(SuppliedCommits) - 3}

\* C7: has_completion_indicators holds iff one of the last 3 headlines
\* contains a completion keyword, has_planning_indicators iff one of them
\* contains a planning keyword, case-insensitively as substrings; so a
\* keyword that occurs only in an older headline sets neither flag.
C7_LastThreeHeadlines ==
    readiness_check # None =>
        /\ readiness_check.has_completion_indicators
               <=> \E n \in LastThree : Mentions(n, CompletionKeywords)
        /\ readiness_check.has_planning_indicators
               <=> \E n \in LastThree : Mentions(n, PlanningKeywords)

\* four commits were scanned: the oldest mentions a completion and a planning
\* keyword, the last three mention none, and neither flag is set
C7_Witness ==
    /\ readiness_check # None
    /\ Len(SuppliedCommits) = 4
    /\ Mentions(1, CompletionKeywords)
    /\ Mentions(1, PlanningKeywords)
    /\ \A n \in 2..4 : ~Mentions(n, CompletionKeywords \cup PlanningKeywords)
    /\ ~readiness_check.has_completion_indicators
    /\ ~readiness_check.has_planning_indicators

C9_SmallDraftIsDraft ==
    (fb_out # None /\ fb_in.is_draft /\ fb_in.additions + fb_in.deletions <= 1000)
        => fb_out.pr_status = "draft"

\* C9 amended: in pr_status a draft PR whose additions + deletions is at most
\* 1000 gets status planning.
C9_SmallDraftIsPlanning ==
    (fb_out # None /\ fb_in.is_draft /\ fb_in.additions + fb_in.deletions <= 1000)
        => fb_out.pr_status = "planning"

\* a draft PR of exactly 1000 changed lines has been given status planning
C9_Witness ==
    /\ fb_out # None
    /\ fb_in.is_draft
    /\ fb_in.additions + fb_in.deletions = 1000
    /\ fb_out.pr_status = "planning"

\* C10: action_needed is resolve_conflicts if mergeable is CONFLICTING;
\* otherwise review_ready if the status is ready_for_review and mergeable is
\* MERGEABLE; otherwise investigate if the status is planning and elapsed > 30
\* or if elapsed > 60; otherwise wait.  Both thresholds are strict.
C10_ActionNeeded ==
    fb_out # None =>
        LET m == fb_in.mergeable
            st == fb_out.pr_status
            e == fb_in.elapsed
            a == fb_out.action_needed
        IN  /\ m = "CONFLICTING" => a = "resolve_conflicts"
            /\ (m # "CONFLICTING" /\ st = "ready_for_review" /\ m = "MERGEABLE")
                   => a = "review_ready"
            /\ (m # "CONFLICTING" /\ ~(st = "ready_for_review" /\ m = "MERGEABLE"))
                   => /\ ((st = "planning" /\ e > 30) \/ e > 60) => a = "investigate"
                      /\ ~((st = "planning" /\ e > 30) \/ e > 60) => a = "wait"
            /\ (m # "CONFLICTING" /\ st = "planning" /\ e = 30) => a = "wait"
            /\ (m # "CONFLICTING" /\ st \notin {"planning", "ready_for_review"}
                    /\ e = 60) => a = "wait"

\* a PR in planning for exactly 30 minutes has been told to wait
C10_Witness ==
    /\ fb_out # None
    /\ fb_in.mergeable = "MERGEABLE"
    /\ fb_out.pr_status = "planning"
    /\ fb_in.elapsed = 30
    /\ fb_out.action_needed = "wait"

\* C11: priority_for_action gives high for resolve_conflicts, medium for
\* review_ready and for investigate, and normal for every other action.
C11_PriorityForAction ==
    fb_out # None =>
        LET a == fb_out.action_needed
        IN  /\ a = "resolve_conflicts" => fb_out.priority = "high"
            /\ a \in {"review_ready", "investigate"} => fb_out.priority = "medium"
            /\ a \notin {"resolve_conflicts", "review_ready", "investigate"}
                   => fb_out.priority = "normal"

\* a PR that needs an investigation has been ranked medium
C11_Witness ==
    /\ fb_out # None
    /\ fb_out.action_needed = "investigate"
    /\ fb_out.priority = "medium"

\* C20: in every verdict ready_for_review is true exactly when the
\* recommendation is review_ready; so it is never true for a PR that is
\* CONFLICTING, is a draft, or changes only yarn.lock.
C20_ReadyIffReviewReady ==
    \A i \in VerdictRuns :
        /\ Verdict(i).ready_for_review <=> Verdict(i).recommendation = "review_ready"
        /\ Verdict(i).ready_for_review =>
               /\ Signal(Verdict(i)).mergeable # "CONFLICTING"
               /\ ~Signal(Verdict(i)).isDraft
               /\ ~Signal(Verdict(i)).yarnLockOnly

\* a draft PR that claims completion got a verdict that is not ready for review
C20_Witness ==
    \E i \in VerdictRuns :
        /\ Signal(Verdict(i)).isDraft
        /\ Signal(Verdict(i)).hasCompletionIndicators
        /\ Verdict(i).recommendation = "convert_to_ready"
        /\ ~Verdict(i).ready_for_review

\* the UTC instant, in seconds since the month began, of the createdAt
\* values that name one
InstantOf(created_at) ==
    CASE created_at = Str("2024-01-01T00:00:00Z") -> 0
      [] created_at = Str("2024-01-01T00:10:30Z") -> 630
      [] created_at = Str("2024-01-01T00:02:00+00:00") -> 120
      [] created_at = Str("2024-01-01T01:00:30+01:00") -> 30

\* the createdAt values that name a UTC instant
NamesInstant(created_at) ==
    created_at \in {Str("2024-01-01T00:00:00Z"), Str("2024-01-01T00:10:30Z"),
                    Str("2024-01-01T00:02:00+00:00"), Str("2024-01-01T01:00:30+01:00")}

\* C13: get_elapsed_minutes returns the time between createdAt and now
\* truncated to whole minutes (m whole minutes lie within the time between the
\* two, and m + 1 do not), and 0 for every createdAt that is no timestamp,
\* missing and empty included; a timestamp without an offset names no instant
\* and gives 0 as well.
C13_ElapsedMinutes ==
    el_out # <<>> =>
        IF NamesInstant(el_in)
        THEN LET between == now - InstantOf(el_in)
                 m == el_out[1]
             IN  IF between >= 0
                 THEN m >= 0 /\ m * 60 <= between /\ between < (m + 1) * 60
                 ELSE m <= 0 /\ m * 60 >= between /\ between > (m - 1) * 60
        ELSE el_out[1] = 0

\* a createdAt five and a half minutes ahead of the clock has given -5
C13_Witness ==
    /\ el_in = Str("2024-01-01T00:10:30Z")
    /\ now = 300
    /\ el_out = <<-5>>

\* the entries of prs that carry a status, action and priority: those built
\* on the readiness path and those built on the fallback path
OnReadinessPath(e) ==
    "readiness_analysis" \in DOMAIN e /\ e.readiness_analysis # None

OnFallbackPath(e) ==
    "readiness_analysis" \in DOMAIN e /\ e.readiness_analysis = None

\* the actions both paths can produce
SharedActions == {"resolve_conflicts", "review_ready", "investigate", "wait"}

\* C12: the readiness path and the fallback path rank an action alike: an
\* entry built on the readiness path carries the same priority as an entry
\* with the same action (resolve_conflicts, review_ready, investigate or wait)
\* built on the fallback path.
C12_PathsRankAlike ==
    \A i, j \in 1..Len(prs) :
        /\ OnReadinessPath(prs[i])
        /\ OnFallbackPath(prs[j])
        /\ prs[i].action_needed = prs[j].action_needed
        /\ prs[i].action_needed \in SharedActions
        => prs[i].priority = prs[j].priority

\* collect_pr_data has built its list and still holds its results
Built == pc = "return_prs"

\* what the dict holds for the PR number at position i of pr_numbers
DataOf(i) == DictGet(pr_data_results, pr_numbers[i])

AnalysisOf(i) == Get(readiness_results, pr_numbers[i], None)

\* the analysis of a PR is available: a record with a recommendation and
\* without an error
Available(analysis) ==
    analysis # None /\ "recommendation" \in DOMAIN analysis
        /\ "error" \notin DOMAIN analysis

\* C14: whatever the order in which the queries complete, collect_pr_data
\* returns one entry per open PR number, in the order of the open-PR list,
\* each built from the results of its own PR number.
C14_OneEntryPerPrInListOrder ==
    Built =>
        /\ Len(prs) = Len(pr_numbers)
        /\ \A i \in 1..Len(pr_numbers) :
               /\ prs[i].pr_number = pr_numbers[i]
               /\ IF DataOf(i) = None
                  THEN "error" \in DOMAIN prs[i]
                  ELSE /\ DataOf(i).number = pr_numbers[i]
                       /\ prs[i].title = DataOf(i).title
                       /\ prs[i].branch = DataOf(i).headRefName
                       /\ prs[i].mergeable = DataOf(i).mergeable
                       /\ OnReadinessPath(prs[i]) =>
                              /\ Available(AnalysisOf(i))
                              /\ AnalysisOf(i).pr_number = pr_numbers[i]
                              /\ prs[i].readiness_analysis.recommendation
                                     = AnalysisOf(i).recommendation
                              /\ prs[i].readiness_analysis.reasons
                                     = AnalysisOf(i).reasons

\* the list is built, newest PR first, although the data of the oldest PR
\* arrived first
C14_Witness ==
    /\ Built
    /\ Len(pr_numbers) >= 2
    /\ pr_data_results[1][1] = pr_numbers[Len(pr_numbers)]
    /\ \A i \in 1..Len(prs) : OnReadinessPath(prs[i])

\* the placeholder of a PR whose data was not found
Placeholder(n) ==
    [pr_number |-> n, error |-> "PR not found", action_needed |-> "investigate",
     priority |-> "high"]

\* what the git and commits queries of the loop return: the answers of the
\* repository, or nothing
AnswersFor(n) ==
    {[git |-> remote[n].git, commits_data |-> remote[n].commits],
     [git |-> GitDown, commits_data |-> None]}

\* C15: a metadata query that fails for one PR leaves the other entries as
\* they are: the entry of that PR is exactly the placeholder, no PR is dropped,
\* every other entry is the one built from its own results, and
\* summary.total_prs is the number of entries, one per open PR number.
C15_PlaceholderForMissingData ==
    /\ Built =>
           /\ Len(prs) = Len(pr_numbers)
           /\ \A i \in 1..Len(pr_numbers) :
                  IF DataOf(i) = None
                  THEN prs[i] = Placeholder(pr_numbers[i])
                  ELSE \E a \in AnswersFor(pr_numbers[i]) :
                           prs[i] = PrEntry(pr_numbers[i], DataOf(i), AnalysisOf(i),
                                            a.git, a.commits_data)
    /\ summary # None => summary.total_prs = Len(prs)

\* the report counts two PRs, one of them a placeholder and the other a full
\* entry
C15_Witness ==
    /\ summary # None
    /\ summary.total_prs = 2
    /\ \E i, j \in 1..Len(prs) :
           /\ prs[i] = Placeholder(prs[i].pr_number)
           /\ "title" \in DOMAIN prs[j]

\* the top-level keys of the report
ReportKeys ==
    {"timestamp", "dashboard_type", "git_status", "prs", "copilot_issues",
     "summary", "recommended_actions"}

\* the positions of collect_all_data
Positions ==
    {"start", "open_prs", "pr_data", "readiness", "process", "return_prs",
     "issues", "summary", "recommend", "return", "done"}

\* C16: whichever queries fail or return nothing, collect_all_data never
\* aborts: it stands at one of its positions, while it waits for the tasks a
\* task is still to complete (so that every position short of the return has
\* a step to take), and what it returns is a report with the keys timestamp,
\* dashboard_type, git_status, prs, copilot_issues, summary and
\* recommended_actions.
C16_AlwaysAReport ==
    /\ pc \in Positions
    /\ pc = "pr_data" =>
           \E i \in 1..Len(pr_numbers) :
               \A j \in 1..Len(pr_data_results) :
                   pr_data_results[j][1] # pr_numbers[i]
    /\ pc = "readiness" =>
           \E i \in 1..Len(pr_numbers) :
               pr_numbers[i] \notin DOMAIN readiness_results
    /\ pc = "done" <=> report # None
    /\ pc = "done" => DOMAIN report = ReportKeys

\* a report is returned although git gave nothing, the data of one PR was not
\* found, the analysis of another was an error record and no issue was listed
C16_Witness ==
    /\ pc = "done"
    /\ report.git_status.current_branch = "unknown"
    /\ report.copilot_issues = <<>>
    /\ \E i, j \in 1..Len(report.prs) :
           /\ "error" \in DOMAIN report.prs[i]
           /\ OnFallbackPath(report.prs[j])
           /\ report.prs[j].commit_count = 0

\* C18: when the data of a PR is found but its analysis is unavailable (the
\* task raised, or returned nothing or an error record), the entry is built on
\* the fallback path: readiness_analysis is null and status, action and
\* priority are those of pr_status, action_needed and priority_for_action; when
\* the analysis is available, action_needed is its recommendation.
C18_FallbackWhenUnavailable ==
    Built =>
        \A i \in 1..Len(pr_numbers) :
            DataOf(i) # None =>
                IF Available(AnalysisOf(i))
                THEN /\ OnReadinessPath(prs[i])
                     /\ prs[i].action_needed = AnalysisOf(i).recommendation
                ELSE /\ prs[i].readiness_analysis = None
                     /\ prs[i].pr_status =
                            PrStatus(prs[i].latest_commit_msg, prs[i].is_draft,
                                     prs[i].additions, prs[i].deletions)
                     /\ prs[i].action_needed =
                            ActionNeeded(prs[i].mergeable, prs[i].pr_status,
                                         prs[i].elapsed_minutes)
                     /\ prs[i].priority = PriorityForAction(prs[i].action_needed)

\* an entry built on the fallback path from an error record, and one from a
\* task that raised
C18_Witness ==
    /\ Built
    /\ \E i, j \in 1..Len(pr_numbers) :
           /\ DataOf(i) # None /\ AnalysisOf(i) # None
           /\ "error" \in DOMAIN AnalysisOf(i)
           /\ prs[i].action_needed = "investigate"
           /\ prs[i].elapsed_minutes > 30
           /\ DataOf(j) # None /\ AnalysisOf(j) = None
           /\ OnFallbackPath(prs[j])

Rank(priority) ==
    CASE priority = "high" -> 1
      [] priority = "medium" -> 2
      [] priority = "low" -> 3

\* the summary count an item with a count reports
CountBehind(item) ==
    CASE item.priority = "high" /\ item.action = "resolve_merge_conflicts" ->
             summary.blocked_count
      [] item.priority = "high" /\ item.action = "investigate" ->
             summary.copilot_blocked_issues
      [] item.priority = "medium" /\ item.action = "review_ready" ->
             summary.ready_for_review_count
      [] item.priority = "medium" /\ item.action = "investigate" ->
             summary.needs_investigation_count

\* generate_recommendations has returned
Recommended == pc \in {"return", "done"}

\* C19: generate_recommendations returns the high-priority items before the
\* medium-priority items before the low-priority monitor_progress item; an
\* item with a count is present only when its summary count is greater than 0
\* and carries that count; monitor_progress is present iff total_prs > 0 or
\* total_copilot_issues > 0, so that the list is empty without PRs and issues.
C19_PrioritizedRecommendations ==
    Recommended =>
        /\ \A i, j \in 1..Len(recommendations) :
               i < j => Rank(recommendations[i].priority)
                            <= Rank(recommendations[j].priority)
        /\ \A i \in 1..Len(recommendations) :
               /\ recommendations[i].priority = "low"
                      <=> recommendations[i].action = "monitor_progress"
               /\ IF recommendations[i].action = "monitor_progress"
                  THEN "count" \notin DOMAIN recommendations[i]
                  ELSE /\ recommendations[i].count > 0
                       /\ recommendations[i].count = CountBehind(recommendations[i])
        /\ (\E i \in 1..Len(recommendations) :
                recommendations[i].action = "monitor_progress")
               <=> (summary.total_prs > 0 \/ summary.total_copilot_issues > 0)
        /\ (summary.total_prs = 0 /\ summary.total_copilot_issues = 0)
               => recommendations = <<>>

\* all five items: conflicts and blocked issues first, then PRs ready for
\* review and long-running PRs, then monitor_progress
C19_Witness ==
    /\ Recommended
    /\ Len(recommendations) = 5
    /\ recommendations[1].action = "resolve_merge_conflicts"
    /\ recommendations[2].priority = "high"
    /\ recommendations[3].action = "review_ready"
    /\ recommendations[4].count = summary.needs_investigation_count
    /\ recommendations[5].action = "monitor_progress"


\* generate_summary has returned the counts of prs
Summarized == pc \in {"recommend", "return", "done"}

\* C21: in the summary of the list collect_pr_data returned, the blocked, the
\* ready and the needs-investigation PRs are counted once each at most:
\* blocked_count + ready_for_review_count + needs_investigation_count does not
\* exceed total_prs, and normal_progress_count is not negative.
C21_CategoriesPartition ==
    Summarized =>
        /\ summary.blocked_count + summary.ready_for_review_count
               + summary.needs_investigation_count <= summary.total_prs
        /\ summary.normal_progress_count >= 0


\* the entries of prs that tell the user to do this
Telling(action) == {i \in 1..Len(prs) : prs[i].action_needed = action}

\* both queries about the PR at position i of pr_numbers returned its data
BothSaw(i) == DataOf(i) # None /\ Available(AnalysisOf(i))

\* get_pr_data in the one task and in the other saw the same mergeable value
\* of every PR
SameMergeable ==
    \A i \in 1..Len(pr_numbers) :
        BothSaw(i) => AnalysisOf(i).mergeable = Get(DataOf(i), "mergeable", "UNKNOWN")

\* C22: when the data query and the readiness query of each PR saw the same
\* mergeable value, the blocked_count generate_summary computes for the list
\* collect_pr_data built is the number of the entries whose action_needed is
\* resolve_conflicts, whether they were built on the readiness path or on the
\* fallback path; and the summary of the report is the summary of that list.
C22_BlockedCountsConflicts ==
    /\ (Built /\ SameMergeable) =>
           GenerateSummary(prs, issues).blocked_count
               = Cardinality(Telling("resolve_conflicts"))
    /\ Summarized => summary = GenerateSummary(prs, issues)

\* both queries saw the same values of two PRs in conflict, one entry was
\* built on the readiness path and one on the fallback path
C22_Witness ==
    /\ Built
    /\ SameMergeable
    /\ \E i, j \in 1..Len(prs) :
           /\ BothSaw(i)
           /\ OnReadinessPath(prs[i])
           /\ prs[i].action_needed = "resolve_conflicts"
           /\ OnFallbackPath(prs[j])
           /\ prs[j].action_needed = "resolve_conflicts"
    /\ GenerateSummary(prs, issues).blocked_count = 2

\* the queries saw different values, and the count and the entries disagree
C22_Changed ==
    /\ Built
    /\ ~SameMergeable
    /\ GenerateSummary(prs, issues).blocked_count
           # Cardinality(Telling("resolve_conflicts"))

\* C23: summary.ready_for_review_count is the number of the entries
\* collect_pr_data returned whose action_needed is review_ready.
C23_ReadyCountsReviewReady ==
    Summarized =>
        summary.ready_for_review_count = Cardinality(Telling("review_ready"))

====
